---- MODULE Spec2Model ----
(***************************************************************************)
(* A model of src/midjourney_image_scraper.py: the run controller (module  *)
(* level try block), scrape_page, download_image and the statistics they   *)
(* keep.  The program is single threaded, so one program counter `pc`      *)
(* follows the control flow through the controller, scrape_page and        *)
(* download_image.  The network, the listing documents and the user's      *)
(* interrupt key are the environment: their outcomes are drawn with \E.    *)
(***************************************************************************)
EXTENDS Integers, Sequences, FiniteSets, TLC

\* ------------------------------------------------------------------ bounds
MaxPage == 2      \* the largest end_page configured
MaxImgs == 2      \* img nodes in one listing document
MaxFound == 2     \* img nodes matched over one run (caps images_found)
MaxChunks == 2    \* chunks iter_content yields for one response

\* ------------------------------------------------------- program constants
max_retries == 3
HashModulus == 100000

\* ------------------------------------------------------------ data: strings
\* A URL string is modelled by the parts urlparse/urlsplit and os.path read
\* from it: scheme, netloc, and the path's basename as (name, ext).
Url(s, n, b, e) == [scheme |-> s, netloc |-> n, name |-> b, ext |-> e]

UExt    == Url("https", "cdn.midjourney.com", "a", ".png")  \* https://cdn.midjourney.com/a.png
UNoExt  == Url("https", "cdn.example", "b", "")             \* https://cdn.example/b
UNoName == Url("https", "cdn.midjourney.com", "", "")       \* https://cdn.midjourney.com/
URel    == Url("", "", "a", ".png")                         \* /a.png
UNoHost == Url("https", "", "a", ".png")                    \* https:/a.png

Urls == {UExt, UNoExt, UNoName, URel, UNoHost}

\* A src attribute is modelled as the sequence of pieces that the marker
\* "fit=cover/" separates: <<>> is a missing (or empty) attribute, <<u>> a
\* string without the marker, <<p, u>> the string p ++ "fit=cover/" ++ u.
Srcs ==
    { <<>>, <<UNoExt>>, <<URel>>, <<UNoHost>>, <<UNoName>>,
      <<UNoName, UExt>>, <<UNoName, UExt, UNoExt>> }

\* The words "midjourney" and "cdn" as substrings of a piece.
PieceWords(u) ==
    CASE u.netloc = "cdn.midjourney.com" -> {"midjourney", "cdn"}
      [] u.netloc = "cdn.example" -> {"cdn"}
      [] OTHER -> {}

SrcContains(src, w) == \E i \in 1..Len(src) : w \in PieceWords(src[i])

\* An img node of a parsed document: whether it lies inside a div.m-5,
\* whether it carries the class cursor-pointer, and its src attribute.
Nodes == [m5 : BOOLEAN, cp : BOOLEAN, src : Srcs]

\* content-type header values (lower-cased), and the accepted substrings
\* each one contains.
ContentTypes == {"image/png", "image/jpeg", "image/gif", "text/html"}

CtTokens(ct) ==
    CASE ct = "image/png" -> {"image/", "png"}
      [] ct = "image/jpeg" -> {"image/", "jpeg"}
      [] ct = "image/gif" -> {"image/"}
      [] OTHER -> {}

HttpErrorStatuses == {404}

Byte == {1}
\* What iter_content may yield: a keep-alive (empty) chunk or a data chunk.
Chunks == {<<>>} \cup {<<b>> : b \in Byte}

\* A path of the download folder holds no file, or a file with its bytes.
NoFile == [exists |-> FALSE, data |-> <<>>]
File(d) == [exists |-> TRUE, data |-> d]

\* ------------------------------------------------------------- statistics
DownloadErrorKeys ==
    {"invalid_url", "timeout", "connection_error", "http_404",
     "invalid_content_type", "empty_file", "unexpected_download_error"}
PageErrorKeys ==
    {"invalid_html", "no_images_found", "page_fetch_error",
     "unexpected_page_error", "processing_error"}
ErrorKeys == DownloadErrorKeys \cup PageErrorKeys

\* stats as created at lines 32-40; a key of the defaultdict that was never
\* touched reads 0.
InitStats ==
    [pages_attempted |-> 0, pages_successful |-> 0, images_found |-> 0,
     images_downloaded |-> 0, images_skipped |-> 0, images_failed |-> 0,
     errors |-> [k \in ErrorKeys |-> 0]]

\* stats[k] += 1
Inc(s, k) == [s EXCEPT ![k] = @ + 1]
\* stats['errors'][e] += 1
IncErr(s, e) == [s EXCEPT !.errors[e] = @ + 1]

\* ------------------------------------------------- download_image: helpers
\* bug variant of the definition below, used to test the properties
ValidateSchemeOnly(u) == u.scheme # ""

\* all([result.scheme, result.netloc])
validate_url(u) == u.scheme # "" /\ u.netloc # ""

\* bug variant of the definition below, used to test the properties
AcceptAnyType(ct) == TRUE

IsImageContentType(ct) ==
    \E t \in {"image/", "jpeg", "jpg", "png", "webp"} : t \in CtTokens(ct)

InferExt(ct) ==
    IF "jpeg" \in CtTokens(ct) \/ "jpg" \in CtTokens(ct) THEN ".jpg"
    ELSE IF "png" \in CtTokens(ct) THEN ".png"
    ELSE IF "webp" \in CtTokens(ct) THEN ".webp"
    ELSE ".jpg"

\* hash(url): fixed for one process.
UrlHash(u) == IF u.netloc = "cdn.midjourney.com" THEN 4211357 ELSE 977

\* The file name of lines 137-153, as (stem, num, ext): num is the number of
\* a generated "image_<num>" name and 0 for a name taken from the URL.
Filename(u, ct) ==
    LET named == u.name # "" \/ u.ext # ""
        stem == IF named THEN u.name ELSE "image_"
        num == IF named THEN 0 ELSE UrlHash(u) % HashModulus
        ext == IF named /\ u.ext # "" THEN u.ext ELSE InferExt(ct)
    IN  [stem |-> stem, num |-> num, ext |-> ext]

Paths ==
    {Filename(u, ct) : u \in {v \in Urls : validate_url(v)},
                       ct \in {c \in ContentTypes : IsImageContentType(c)}}

NoPath == [stem |-> "", num |-> 0, ext |-> ""]
NoUrl == Url("", "", "", "")

\* os.path.exists(filepath), os.path.getsize(filepath)
Exists(f, p) == f[p].exists
Size(f, p) == Len(f[p].data)

\* f'http_{e.response.status_code}'
HttpKey(status) == IF status = 404 THEN "http_404" ELSE "http_other"

\* bug variant of the definition below, used to test the properties
FailedUncounted(s, e) == IncErr(s, e)

\* The counters of one failed download: images_failed and one category.
Failed(s, e) == IncErr(Inc(s, "images_failed"), e)

\* ---------------------------------------------------- scrape_page: helpers
\* soup.select for the five selectors, in the order the code tries them.
Select(doc, k) ==
    CASE k = 1 -> SelectSeq(doc, LAMBDA n : n.m5 /\ n.cp)
      [] k = 2 -> SelectSeq(doc, LAMBDA n : n.cp)
      [] k = 3 -> SelectSeq(doc, LAMBDA n : n.m5)
      [] k = 4 -> SelectSeq(doc, LAMBDA n : SrcContains(n.src, "midjourney"))
      [] k = 5 -> SelectSeq(doc, LAMBDA n : SrcContains(n.src, "cdn"))

\* bug variant of the definition below, used to test the properties: the
\* loop over the alternative selectors without its break.
RECURSIVE AlternativesLast(_, _, _)
AlternativesLast(doc, k, ev) ==
    IF k > 5 THEN [tags |-> <<>>, evaluated |-> ev]
    ELSE LET rest == AlternativesLast(doc, k + 1, Append(ev, k)) IN
         IF rest.tags # <<>> THEN rest
         ELSE [tags |-> Select(doc, k), evaluated |-> rest.evaluated]

\* thumbnail_tags and the selectors evaluated (in order) by lines 241-259.
RECURSIVE Alternatives(_, _, _)
Alternatives(doc, k, ev) ==
    IF k > 5 THEN [tags |-> <<>>, evaluated |-> ev]
    ELSE IF Select(doc, k) # <<>>
         THEN [tags |-> Select(doc, k), evaluated |-> Append(ev, k)]
         ELSE Alternatives(doc, k + 1, Append(ev, k))

SelectorChain(doc) ==
    IF Select(doc, 1) # <<>>
    THEN [tags |-> Select(doc, 1), evaluated |-> <<1>>]
    ELSE Alternatives(doc, 2, <<1>>)

\* thumbnail_src.split('fit=cover/')[1] when the marker occurs, else the
\* thumbnail_src itself (lines 292-297).
Resolve(src) == IF Len(src) > 1 THEN src[2] ELSE src[1]

SeqsUpTo(S, n) == UNION {[1..k -> S] : k \in 0..n}
Min(a, b) == IF a < b THEN a ELSE b

\* ------------------------------------------------------------------ state
VARIABLES
    pc,                   \* where the control is
    start_page, end_page, \* the configured range (lines 369-370)
    page,                 \* the loop variable of line 381
    stats,                \* the module's stats dictionary
    folder,               \* whether DOWNLOAD_FOLDER exists
    fs,                   \* the files of DOWNLOAD_FOLDER, by file name
    attempt,              \* scrape_page: the retry loop's variable
    tags, idx,            \* scrape_page: thumbnail_tags and the loop's position
    successful_downloads, failed_downloads,
    url, content_type, filepath, bytes_written, ret,  \* download_image
    \* what happened, recorded for the properties (the program keeps none of it)
    checks,               \* the outcome of each start-up check
    ended,                \* how the process ended
    exitCode,
    summaries,            \* the stats print_summary rendered, one entry per call
    interrupted_in,       \* the function a KeyboardInterrupt was raised in
    nosrc,                \* matched img nodes that had no src attribute
    listingGet,           \* whether a listing page was ever requested
    attempted,            \* the page numbers scrape_page was called with
    exhausted,            \* pages whose last fetch attempt failed
    troubled,             \* pages that hit any page-level failure
    fetchLog,             \* this page's fetch events
    statsPre, fsPre,      \* stats and fs when the current download_image call began
    gets,                 \* requests the current download_image call issued
    yielded,              \* chunks iter_content yielded so far in the open stream
    recvd,                \* the bytes of those chunks
    stream,               \* "none", "open", "done" or "error"
    prev,                 \* the previous download_image call, when it downloaded
    \* the selection of lines 231-259 taken alone (SpecSelect)
    soup,                 \* the parsed document
    selectors_tried       \* the selectors evaluated on it, in order

ctl == <<pc, start_page, end_page, page, folder>>
spv == <<attempt, tags, idx, successful_downloads, failed_downloads>>
dlv == <<url, content_type, filepath, bytes_written, ret>>
runlog == <<ended, exitCode, summaries, interrupted_in>>
NoChecks == [preflight |-> "pending", folder |-> "pending", range |-> "pending"]
pagelog == <<listingGet, attempted, exhausted, troubled, fetchLog>>
calllog == <<statsPre, fsPre, gets, yielded, recvd, stream, prev>>
selv == <<soup, selectors_tried>>
vars == <<ctl, stats, fs, spv, dlv, checks, runlog, pagelog, calllog, selv, nosrc>>

\* The configured ranges: [0,0], [0,MaxPage], [1,MaxPage] and the invalid [1,0].
StartPages == {0, 1}
EndPages == {0, MaxPage}

EmptyFolder == [p \in Paths |-> NoFile]
NoPrev == [url |-> NoUrl, path |-> NoPath, outcome |-> "none", data |-> <<>>]

Init ==
    /\ pc = "test_connectivity"
    /\ start_page \in StartPages
    /\ end_page \in EndPages
    /\ page = 0
    /\ stats = InitStats
    /\ folder \in BOOLEAN
    /\ fs = EmptyFolder
    /\ attempt = 0
    /\ tags = <<>>
    /\ idx = 0
    /\ successful_downloads = 0
    /\ failed_downloads = 0
    /\ url = NoUrl
    /\ content_type = ""
    /\ filepath = NoPath
    /\ bytes_written = 0
    /\ ret = FALSE
    /\ checks = NoChecks
    /\ ended = "running"
    /\ exitCode = 0
    /\ summaries = <<>>
    /\ interrupted_in = "none"
    /\ nosrc = 0
    /\ listingGet = FALSE
    /\ attempted = <<>>
    /\ exhausted = 0
    /\ troubled = 0
    /\ fetchLog = <<>>
    /\ statsPre = InitStats
    /\ fsPre = EmptyFolder
    /\ gets = 0
    /\ yielded = 0
    /\ recvd = <<>>
    /\ stream = "none"
    /\ prev = NoPrev
    /\ soup = <<>>
    /\ selectors_tried = <<>>

\* ---------------------------------------------------------- run controller
\* the function whose frame holds the control: download_image, scrape_page
\* or the module's try block
Frame ==
    IF pc \in {"dl_request", "dl_open", "dl_stream"} THEN "download_image"
    ELSE IF pc \in {"fetch", "parse", "image", "dl_return"} THEN "scrape_page"
    ELSE "module"

\* bug variant of the definition below, used to test the properties
FinishSilent(how, code) ==
    /\ pc' = "exited"
    /\ ended' = how
    /\ exitCode' = code
    /\ summaries' = summaries
    /\ interrupted_in' = IF how = "interrupt" THEN Frame ELSE "none"

\* print_summary() followed by the end of the process.
Finish(how, code) ==
    /\ pc' = "exited"
    /\ ended' = how
    /\ exitCode' = code
    /\ summaries' = Append(summaries, stats)
    /\ interrupted_in' = IF how = "interrupt" THEN Frame ELSE "none"

\* bug variants of the definition below, used to test the properties
Exit1Summary(how) == Finish(how, 1)
Exit1Ignored(how) ==
    /\ pc' = IF how = "preflight" THEN "create_download_folder" ELSE "loop"
    /\ UNCHANGED runlog

\* exit(1): SystemExit is neither KeyboardInterrupt nor Exception, so neither
\* handler of lines 391-397 runs.
Exit1(how) ==
    /\ pc' = "exited"
    /\ ended' = how
    /\ exitCode' = 1
    /\ summaries' = summaries
    /\ interrupted_in' = "none"

\* lines 361-363 with test_connectivity (lines 50-69)
TestConnectivity ==
    /\ pc = "test_connectivity"
    /\ \E r \in {"200", "other_status", "ConnectionError", "Timeout", "Exception"} :
          IF r = "200"
          THEN /\ pc' = "create_download_folder"
               /\ checks' = [checks EXCEPT !.preflight = "passed"]
               /\ UNCHANGED runlog
          ELSE /\ checks' = [checks EXCEPT !.preflight = "failed"]
               /\ Exit1("preflight")
    /\ UNCHANGED <<start_page, end_page, page, folder, stats, fs, spv, dlv,
                   pagelog, calllog>>
    /\ UNCHANGED <<selv, nosrc>>

\* line 366 with create_download_folder (lines 71-94): makedirs or the write
\* probe may raise; the exception reaches the handler of lines 394-397.
CreateDownloadFolder ==
    /\ pc = "create_download_folder"
    /\ \E makedirs_ok \in BOOLEAN, probe_ok \in BOOLEAN :
          /\ folder' = (folder \/ makedirs_ok)
          /\ IF folder' /\ probe_ok
             THEN /\ pc' = "validate_range"
                  /\ checks' = [checks EXCEPT !.folder = "passed"]
                  /\ UNCHANGED runlog
             ELSE /\ checks' = [checks EXCEPT !.folder = "failed"]
                  /\ Finish("exception", 1)
    /\ UNCHANGED <<start_page, end_page, page, stats, fs, spv, dlv,
                   pagelog, calllog>>
    /\ UNCHANGED <<selv, nosrc>>

\* lines 369-378
ValidateRange ==
    /\ pc = "validate_range"
    /\ IF start_page > end_page
       THEN /\ checks' = [checks EXCEPT !.range = "failed"]
            /\ Exit1("range")
            /\ page' = page
       ELSE /\ checks' = [checks EXCEPT !.range = "passed"]
            /\ pc' = "loop"
            /\ page' = start_page
            /\ UNCHANGED runlog
    /\ UNCHANGED <<start_page, end_page, folder, stats, fs, spv, dlv,
                   pagelog, calllog>>
    /\ UNCHANGED <<selv, nosrc>>

\* line 381: the next page of range(start_page, end_page + 1), and the
\* entry of scrape_page (lines 206-208); after the last page, line 389.
LoopStep ==
    /\ pc = "loop"
    /\ IF page <= end_page
       THEN /\ pc' = "fetch"
            /\ stats' = Inc(stats, "pages_attempted")
            /\ attempted' = Append(attempted, page)
       ELSE /\ pc' = "print_summary"
            /\ UNCHANGED <<stats, attempted>>
    /\ UNCHANGED <<checks, start_page, end_page, page, folder, fs, spv, dlv, runlog,
                   listingGet, exhausted, troubled, fetchLog, calllog>>
    /\ UNCHANGED <<selv, nosrc>>

\* lines 384-386 after scrape_page returned: the delay, then the next page.
NextPage ==
    /\ pc = "page_return"
    /\ pc' = "loop"
    /\ page' = page + 1
    /\ fetchLog' = <<>>
    /\ UNCHANGED <<checks, start_page, end_page, folder, stats, fs, spv, dlv, runlog,
                   listingGet, attempted, exhausted, troubled, calllog>>
    /\ UNCHANGED <<selv, nosrc>>

\* line 389
PrintSummary ==
    /\ pc = "print_summary"
    /\ Finish("completed", 0)
    /\ UNCHANGED <<checks, start_page, end_page, page, folder, stats, fs, spv, dlv,
                   pagelog, calllog>>
    /\ UNCHANGED <<selv, nosrc>>

\* -------------------------------------------------------------- scrape_page
\* bug variant of the definition below, used to test the properties: line
\* 312 moved to where every return passes
PageReturnCounted(s) ==
    /\ pc' = "page_return"
    /\ stats' = Inc(s, "pages_successful")
    /\ attempt' = 0
    /\ tags' = <<>>
    /\ idx' = 0
    /\ successful_downloads' = 0
    /\ failed_downloads' = 0

\* scrape_page returns to the loop of line 381; its locals are gone.
PageReturn(s) ==
    /\ pc' = "page_return"
    /\ stats' = s
    /\ attempt' = 0
    /\ tags' = <<>>
    /\ idx' = 0
    /\ successful_downloads' = 0
    /\ failed_downloads' = 0

\* bug variants of the two definitions below, used to test the properties
OnPageFetchErrorFatal ==
    /\ Finish("exception", 1)
    /\ stats' = stats
    /\ UNCHANGED spv
LastAttemptLate(a) == a = max_retries

\* lines 314-316: the handler of the RequestException that line 222 re-raised.
OnPageFetchError ==
    /\ PageReturn(IncErr(stats, "page_fetch_error"))
    /\ UNCHANGED runlog

\* line 221
LastAttempt(a) == a = max_retries - 1

\* lines 213-223: one turn of the retry loop.
FetchAttempt ==
    /\ pc = "fetch"
    /\ listingGet' = TRUE
    /\ \E ok \in BOOLEAN :
          IF ok
          THEN /\ pc' = "parse"
               /\ fetchLog' = Append(fetchLog, "ok")
               /\ UNCHANGED <<stats, attempt, tags, idx, successful_downloads,
                              failed_downloads, exhausted, troubled, runlog>>
          ELSE IF LastAttempt(attempt)
          THEN /\ fetchLog' = Append(fetchLog, "fail")
               /\ exhausted' = exhausted + 1
               /\ troubled' = troubled + 1
               /\ OnPageFetchError
          ELSE /\ fetchLog' = fetchLog \o <<"fail", "sleep">>
               /\ attempt' = attempt + 1
               /\ UNCHANGED <<pc, stats, tags, idx, successful_downloads,
                              failed_downloads, exhausted, troubled, runlog>>
    /\ UNCHANGED <<checks, start_page, end_page, page, folder, fs, dlv,
                   attempted, calllog>>
    /\ UNCHANGED <<selv, nosrc>>

\* lines 241-273 for one parsed document: the thumbnails are selected.
\* tags keeps the src attribute of each matched node, the one thing the
\* loop of line 279 reads from a node.
ParseDoc(d) ==
    LET r == SelectorChain(d) IN
    IF r.tags = <<>>
    THEN /\ PageReturn(IncErr(stats, "no_images_found"))
         /\ troubled' = troubled + 1
         /\ fetchLog' = <<>>
         /\ nosrc' = nosrc
    ELSE /\ pc' = "image"
         /\ stats' = [stats EXCEPT !.images_found = @ + Len(r.tags)]
         /\ tags' = [i \in 1..Len(r.tags) |-> r.tags[i].src]
         /\ nosrc' = nosrc + Len(SelectSeq(r.tags, LAMBDA n : n.src = <<>>))
         /\ idx' = 1
         /\ troubled' = troubled
         \* the retry loop's variable is dead from here on
         /\ attempt' = 0
         /\ fetchLog' = <<>>
         /\ UNCHANGED <<successful_downloads, failed_downloads>>

\* lines 225-273: the document is parsed and the thumbnails are selected.
ParsePage ==
    /\ pc = "parse"
    /\ \/ \* BeautifulSoup or response.text raises: lines 317-319
          /\ PageReturn(IncErr(stats, "unexpected_page_error"))
          /\ troubled' = troubled + 1
          /\ fetchLog' = <<>>
          /\ nosrc' = nosrc
       \/ \* no <html> tag: lines 234-237
          /\ PageReturn(IncErr(stats, "invalid_html"))
          /\ troubled' = troubled + 1
          /\ fetchLog' = <<>>
          /\ nosrc' = nosrc
       \/ \E d \in SeqsUpTo(Nodes, Min(MaxImgs, MaxFound - stats.images_found)) :
            ParseDoc(d)
    /\ UNCHANGED <<checks, start_page, end_page, page, folder, fs, dlv, runlog,
                   listingGet, attempted, exhausted, calllog>>
    /\ UNCHANGED selv

\* lines 279-301 for one node, up to the call of download_image; after the
\* last node, lines 311-312.
ProcessImage ==
    /\ pc = "image"
    /\ IF idx > Len(tags)
       THEN /\ PageReturn(Inc(stats, "pages_successful"))
            /\ UNCHANGED <<dlv, calllog>>
       ELSE IF tags[idx] = <<>>
       THEN /\ failed_downloads' = failed_downloads + 1
            /\ idx' = idx + 1
            /\ UNCHANGED <<pc, stats, attempt, tags, successful_downloads,
                           dlv, calllog>>
       ELSE /\ pc' = "dl_request"
            /\ url' = Resolve(tags[idx])
            /\ content_type' = ""
            /\ filepath' = NoPath
            /\ bytes_written' = 0
            /\ ret' = FALSE
            /\ statsPre' = stats
            /\ fsPre' = fs
            /\ gets' = 0
            /\ yielded' = 0
            /\ recvd' = <<>>
            /\ stream' = "none"
            /\ UNCHANGED <<stats, spv, prev>>
    /\ UNCHANGED <<checks, start_page, end_page, page, folder, fs, runlog, pagelog>>
    /\ UNCHANGED <<selv, nosrc>>

\* ----------------------------------------------------------- download_image
\* What the call is counted as, read off the counters it changed.
Outcome ==
    IF stats.images_downloaded # statsPre.images_downloaded THEN "Downloaded"
    ELSE IF stats.images_skipped # statsPre.images_skipped THEN "Skipped"
    ELSE IF stats.images_failed # statsPre.images_failed THEN "Failed"
    ELSE "none"

\* bug variant of the definition below, used to test the properties: a
\* failure leaves download_image as an exception, caught at line 317
ReturnRaise(s, r) ==
    /\ pc' = IF r THEN "dl_return" ELSE "page_return"
    /\ stats' = IF r THEN s ELSE IncErr(s, "unexpected_page_error")
    /\ ret' = r

\* a return statement of download_image
Return(s, r) ==
    /\ pc' = "dl_return"
    /\ stats' = s
    /\ ret' = r

\* bug variants of the three definitions below, used to test the properties
SkipNever(f, p) == FALSE
SkipAnyExisting(f, p) == Exists(f, p)
RemoveNothing(f, p) == f
WriteOver(f, p, c) == [f EXCEPT ![p] = File(c)]

\* lines 158-160: the file is there and not empty
SkipExisting(f, p) == Exists(f, p) /\ Size(f, p) > 0

\* os.remove(filepath)
Remove(f, p) == [f EXCEPT ![p] = NoFile]
\* open(filepath, 'wb')
Truncate(f, p) == [f EXCEPT ![p] = File(<<>>)]
\* f.write(chunk)
Write(f, p, c) == [f EXCEPT ![p] = File(@.data \o c)]

\* what requests.get / raise_for_status may do at lines 110-111
GetOutcomes ==
    {[kind |-> k, status |-> 0, ct |-> ""] :
        k \in {"Timeout", "ConnectionError", "RequestException"}}
    \cup {[kind |-> "HTTPError", status |-> st, ct |-> ""] : st \in HttpErrorStatuses}
    \cup {[kind |-> "ok", status |-> 200, ct |-> c] : c \in ContentTypes}

\* lines 98-166: validation, the GET, the content type, the file name and
\* the look at the file that may already be there.
DlRequest ==
    /\ pc = "dl_request"
    /\ IF ~validate_url(url)
       THEN /\ Return(Failed(stats, "invalid_url"), FALSE)
            /\ UNCHANGED <<fs, content_type, filepath, gets>>
       ELSE /\ gets' = gets + 1
            /\ \E o \in GetOutcomes :
                 CASE o.kind = "Timeout" ->
                        /\ Return(Failed(stats, "timeout"), FALSE)
                        /\ UNCHANGED <<fs, content_type, filepath>>
                   [] o.kind = "ConnectionError" ->
                        /\ Return(Failed(stats, "connection_error"), FALSE)
                        /\ UNCHANGED <<fs, content_type, filepath>>
                   [] o.kind = "HTTPError" ->
                        /\ Return(Failed(stats, HttpKey(o.status)), FALSE)
                        /\ UNCHANGED <<fs, content_type, filepath>>
                   [] o.kind = "RequestException" ->
                        \* any other exception: lines 198-202
                        /\ Return(Failed(stats, "unexpected_download_error"), FALSE)
                        /\ UNCHANGED <<fs, content_type, filepath>>
                   [] o.kind = "ok" ->
                        /\ content_type' = o.ct
                        /\ IF ~IsImageContentType(o.ct)
                           THEN /\ Return(Failed(stats, "invalid_content_type"), FALSE)
                                /\ UNCHANGED <<fs, filepath>>
                           ELSE /\ filepath' = Filename(url, o.ct)
                                /\ IF SkipExisting(fs, filepath')
                                   THEN /\ Return(Inc(stats, "images_skipped"), TRUE)
                                        /\ fs' = fs
                                   ELSE /\ pc' = "dl_open"
                                        /\ fs' = IF Exists(fs, filepath')
                                                  THEN Remove(fs, filepath')
                                                  ELSE fs
                                        /\ UNCHANGED <<stats, ret>>
    /\ UNCHANGED <<checks, start_page, end_page, page, folder, spv, url, bytes_written,
                   runlog, pagelog, statsPre, fsPre, yielded, recvd, stream, prev>>
    /\ UNCHANGED <<selv, nosrc>>

\* lines 168-179: the advisory size warnings, then open(filepath, 'wb')
DlOpen ==
    /\ pc = "dl_open"
    /\ pc' = "dl_stream"
    /\ fs' = Truncate(fs, filepath)
    /\ bytes_written' = 0
    /\ stream' = "open"
    /\ UNCHANGED <<checks, start_page, end_page, page, folder, stats, spv, url,
                   content_type, filepath, ret, runlog, pagelog,
                   statsPre, fsPre, gets, yielded, recvd, prev>>
    /\ UNCHANGED <<selv, nosrc>>

\* lines 180-183: one chunk of response.iter_content
DlChunk ==
    /\ pc = "dl_stream"
    /\ yielded < MaxChunks
    /\ \E chunk \in Chunks :
          /\ yielded' = yielded + 1
          /\ recvd' = recvd \o chunk
          /\ IF chunk # <<>>
             THEN /\ fs' = Write(fs, filepath, chunk)
                  /\ bytes_written' = bytes_written + Len(chunk)
             ELSE UNCHANGED <<fs, bytes_written>>
    /\ UNCHANGED <<ctl, stats, spv, url, content_type, filepath, ret, checks,
                   runlog, pagelog, statsPre, fsPre, gets, stream, prev>>
    /\ UNCHANGED <<selv, nosrc>>

\* lines 185-196: the body ended, the file is closed and validated
DlEndOfStream ==
    /\ pc = "dl_stream"
    /\ stream' = "done"
    /\ yielded' = 0
    /\ IF bytes_written = 0
       THEN /\ fs' = Remove(fs, filepath)
            /\ Return(Failed(stats, "empty_file"), FALSE)
       ELSE /\ fs' = fs
            /\ Return(Inc(stats, "images_downloaded"), TRUE)
    /\ UNCHANGED <<checks, start_page, end_page, page, folder, spv, url, content_type,
                   filepath, bytes_written, runlog, pagelog,
                   statsPre, fsPre, gets, recvd, prev>>
    /\ UNCHANGED <<selv, nosrc>>

\* iter_content raises while the body is streamed (the connection breaks):
\* the with block closes the file and lines 198-202 count the failure.
DlStreamError ==
    /\ pc = "dl_stream"
    /\ stream' = "error"
    /\ yielded' = 0
    /\ Return(Failed(stats, "unexpected_download_error"), FALSE)
    /\ UNCHANGED <<checks, start_page, end_page, page, folder, fs, spv, url,
                   content_type, filepath, bytes_written, runlog, pagelog,
                   statsPre, fsPre, gets, recvd, prev>>
    /\ UNCHANGED <<selv, nosrc>>

\* lines 301-304: back in scrape_page with download_image's result
DlReturn ==
    /\ pc = "dl_return"
    /\ pc' = "image"
    /\ IF ret
       THEN /\ successful_downloads' = successful_downloads + 1
            /\ failed_downloads' = failed_downloads
       ELSE /\ failed_downloads' = failed_downloads + 1
            /\ successful_downloads' = successful_downloads
    /\ idx' = idx + 1
    /\ prev' = IF Outcome = "Downloaded"
               THEN [url |-> url, path |-> filepath, outcome |-> Outcome,
                     data |-> fs[filepath].data]
               ELSE NoPrev
    /\ url' = NoUrl
    /\ content_type' = ""
    /\ filepath' = NoPath
    /\ bytes_written' = 0
    /\ ret' = FALSE
    /\ statsPre' = InitStats
    /\ fsPre' = EmptyFolder
    /\ gets' = 0
    /\ yielded' = 0
    /\ recvd' = <<>>
    /\ stream' = "none"
    /\ UNCHANGED <<checks, start_page, end_page, page, folder, stats, fs, attempt,
                   tags, runlog, pagelog>>
    /\ UNCHANGED <<selv, nosrc>>

\* ------------------------------------------------------------- interruption
\* KeyboardInterrupt is raised wherever the control is inside the try block;
\* no handler below line 391 catches it (it is no Exception), an open file
\* is closed by its with block, and lines 391-393 print the summary.
Interrupt ==
    /\ pc # "exited"
    /\ Finish("interrupt", 0)
    \* the frames of scrape_page and download_image are unwound
    /\ attempt' = 0
    /\ tags' = <<>>
    /\ idx' = 0
    /\ successful_downloads' = 0
    /\ failed_downloads' = 0
    /\ url' = NoUrl
    /\ content_type' = ""
    /\ filepath' = NoPath
    /\ bytes_written' = 0
    /\ ret' = FALSE
    /\ fetchLog' = <<>>
    /\ statsPre' = InitStats
    /\ fsPre' = EmptyFolder
    /\ gets' = 0
    /\ yielded' = 0
    /\ recvd' = <<>>
    /\ stream' = "none"
    /\ prev' = NoPrev
    /\ UNCHANGED <<checks, start_page, end_page, page, folder, stats, fs,
                   listingGet, attempted, exhausted, troubled>>
    /\ UNCHANGED <<selv, nosrc>>


Next ==
    \/ TestConnectivity
    \/ CreateDownloadFolder
    \/ ValidateRange
    \/ LoopStep
    \/ NextPage
    \/ PrintSummary
    \/ FetchAttempt
    \/ ParsePage
    \/ ProcessImage
    \/ DlRequest
    \/ DlOpen
    \/ DlChunk
    \/ DlEndOfStream
    \/ DlStreamError
    \/ DlReturn
    \/ Interrupt

Spec == Init /\ [][Next]_vars

\* -------------------------------------------- the selection of a page, alone
\* scrape_page at line 231 of the first page of a run, for every document
\* the parser may return.
Docs == SeqsUpTo(Nodes, MaxImgs)

InitSelect ==
    /\ pc = "parse"
    /\ start_page = 0
    /\ end_page \in EndPages
    /\ page = 0
    /\ stats = Inc(InitStats, "pages_attempted")
    /\ folder = TRUE
    /\ fs = EmptyFolder
    /\ attempt = 0
    /\ tags = <<>>
    /\ idx = 0
    /\ successful_downloads = 0
    /\ failed_downloads = 0
    /\ url = NoUrl
    /\ content_type = ""
    /\ filepath = NoPath
    /\ bytes_written = 0
    /\ ret = FALSE
    /\ checks = [preflight |-> "passed", folder |-> "passed", range |-> "passed"]
    /\ ended = "running"
    /\ exitCode = 0
    /\ summaries = <<>>
    /\ interrupted_in = "none"
    /\ nosrc = 0
    /\ listingGet = TRUE
    /\ attempted = <<0>>
    /\ exhausted = 0
    /\ troubled = 0
    /\ fetchLog = <<"ok">>
    /\ statsPre = InitStats
    /\ fsPre = EmptyFolder
    /\ gets = 0
    /\ yielded = 0
    /\ recvd = <<>>
    /\ stream = "none"
    /\ prev = NoPrev
    /\ soup \in Docs
    /\ selectors_tried = <<>>

\* lines 241-273 applied to the document soup
SelectThumbnails ==
    /\ pc = "parse"
    /\ ParseDoc(soup)
    /\ selectors_tried' = SelectorChain(soup).evaluated
    /\ UNCHANGED <<checks, start_page, end_page, page, folder, fs, dlv, runlog,
                   listingGet, attempted, exhausted, calllog, soup>>

NextSelect == SelectThumbnails

SpecSelect == InitSelect /\ [][NextSelect]_vars

\* ============================================================== properties
InCall == pc \in {"dl_request", "dl_open", "dl_stream", "dl_return"}
Returned == pc = "dl_return"
\* the GET of the current call came back 2xx (line 129 was reached)
GotResponse == gets = 1 /\ content_type # ""
\* the folder but for one path
Others(f, p) == [q \in Paths \ {p} |-> f[q]]
\* a content type that contains one of the accepted substrings
AcceptedType(ct) ==
    CtTokens(ct) \cap {"image/", "jpeg", "jpg", "png", "webp"} # {}
\* a URL with a scheme and a host
AbsoluteUrl(u) == u.scheme # "" /\ u.netloc # ""

\* C1 (as stated): when a call that downloaded a URL is followed at once by
\* a second call for the same URL and folder, the second call is Skipped
\* (images_skipped +1) and the file holds what the first call wrote.
C1_Stated ==
    (Returned /\ prev.outcome = "Downloaded" /\ prev.url = url)
        => /\ Outcome = "Skipped"
           /\ stats = Inc(statsPre, "images_skipped")
           /\ fs[prev.path] = File(prev.data)

\* C1 (amended): the second call is Skipped whenever its GET again returns
\* a 2xx response with an accepted content type that gives the same file
\* name; whatever the second call's outcome, from its first step to its
\* return the file the first call wrote keeps its content.
C1_Idempotent ==
    (InCall /\ prev.outcome = "Downloaded" /\ prev.url = url)
        => /\ fs[prev.path] = File(prev.data)
           /\ (Returned /\ GotResponse /\ AcceptedType(content_type)
                 /\ Filename(url, content_type) = prev.path)
                => /\ Outcome = "Skipped"
                   /\ ret
                   /\ stats = Inc(statsPre, "images_skipped")
                   /\ fs = fsPre

C1_Witness ==
    /\ Returned /\ prev.outcome = "Downloaded" /\ prev.url = url
    /\ Outcome = "Skipped"
    /\ prev.data # <<>>
    /\ fs[prev.path] = File(prev.data)

\* C2: a valid URL, a 2xx response with an accepted content type and a body
\* that was delivered whole and is not empty, no file at the target path:
\* the call returns Downloaded, images_downloaded grows by one and nothing
\* else in stats changes, and the file holds as many bytes as the body.
C2_Downloaded ==
    (/\ Returned /\ AbsoluteUrl(url) /\ GotResponse
     /\ AcceptedType(content_type)
     /\ ~Exists(fsPre, Filename(url, content_type))
     /\ stream = "done" /\ recvd # <<>>)
        => /\ ret
           /\ Outcome = "Downloaded"
           /\ stats = Inc(statsPre, "images_downloaded")
           /\ filepath = Filename(url, content_type)
           /\ Exists(fs, filepath)
           /\ Size(fs, filepath) = Len(recvd)
           /\ fs[filepath].data = recvd

C2_Witness ==
    /\ Returned /\ AbsoluteUrl(url) /\ GotResponse
    /\ ~Exists(fsPre, Filename(url, content_type))
    /\ stream = "done" /\ Len(recvd) = 2
    /\ Outcome = "Downloaded"
    /\ Size(fs, filepath) = 2

C4_ContentType ==
    (Returned /\ GotResponse /\ ~AcceptedType(content_type))
        => /\ ~ret
           /\ stats = Failed(statsPre, "invalid_content_type")
           /\ stats.images_failed = statsPre.images_failed + 1
           /\ stats.errors["invalid_content_type"]
                = statsPre.errors["invalid_content_type"] + 1
           /\ fs = fsPre
           /\ stream = "none"
           /\ \A p \in Paths : ~Exists(fsPre, p) => ~Exists(fs, p)

C4_Witness ==
    /\ Returned /\ GotResponse /\ content_type = "text/html"
    /\ Outcome = "Failed"
    /\ stats.errors["invalid_content_type"] = 1
    /\ \A p \in Paths : ~Exists(fs, p)

\* C5: a 2xx response with an accepted content type whose body ends with no
\* byte streamed: the call fails as empty_file (images_failed +1,
\* errors[empty_file] +1, nothing else) and no file is at the target path
\* afterwards; before the call the path was absent or held a zero-byte file.
C5_EmptyBody ==
    (Returned /\ GotResponse /\ AcceptedType(content_type)
     /\ stream = "done" /\ recvd = <<>>)
        => /\ ~ret
           /\ stats = Failed(statsPre, "empty_file")
           /\ filepath = Filename(url, content_type)
           /\ ~Exists(fs, filepath)
           /\ Others(fs, filepath) = Others(fsPre, filepath)
           /\ fsPre[filepath] \in {NoFile, File(<<>>)}

C5_Witness ==
    /\ Returned /\ GotResponse /\ stream = "done" /\ recvd = <<>>
    /\ fsPre[filepath] = File(<<>>)
    /\ ~Exists(fs, filepath)
    /\ stats.errors["empty_file"] = 1


\* the pages of range(start_page, end_page + 1), in order
RangeSeq(a, b) == [i \in 1..(b - a + 1) |-> a + i - 1]
IsPrefix(x, y) == Len(x) <= Len(y) /\ \A i \in 1..Len(x) : x[i] = y[i]

\* C6: a page-level failure never ends the crawl.  The pages attempted are
\* always an initial part of start_page..end_page in increasing order, each
\* once; a run that completes has attempted end_page - start_page + 1
\* pages; every page whose fetch was exhausted adds one to
\* errors[page_fetch_error]; the pages without a page-level failure are the
\* ones counted in pages_successful; an exception ends the run only before
\* the first page.
C6_PagesNeverFatal ==
    /\ IsPrefix(attempted, RangeSeq(start_page, end_page))
    /\ stats.pages_attempted = Len(attempted)
    /\ stats.errors["page_fetch_error"] = exhausted
    /\ ended = "exception" => stats.pages_attempted = 0
    /\ ended = "completed"
         => /\ stats.pages_attempted = end_page - start_page + 1
            /\ stats.pages_successful = stats.pages_attempted - troubled

C6_Witness ==
    /\ ended = "completed"
    /\ start_page = 0 /\ end_page = 2
    /\ stats.pages_attempted = 3
    /\ stats.pages_successful = 2
    /\ stats.errors["page_fetch_error"] = 1
    /\ exhausted = 1 /\ troubled = 1
    /\ stats.images_downloaded = 2

\* C7: when the preflight check fails the run exits nonzero
\* with no page attempted, and the summary was printed with all counters 0.
C7_Stated ==
    ended = "preflight"
        => /\ exitCode # 0
           /\ stats.pages_attempted = 0
           /\ summaries = <<InitStats>>

\* what the code does for C7: when the preflight check fails the run exits
\* at once with exit code 1, no page attempted, no listing page requested
\* and every counter 0, and no summary is printed.
C7_PreflightAbort ==
    checks.preflight = "failed"
        => /\ pc = "exited"
           /\ ended = "preflight"
           /\ exitCode = 1
           /\ stats = InitStats
           /\ ~listingGet
           /\ checks.folder = "pending"
           /\ summaries = <<>>

C7_Witness ==
    /\ pc = "exited"
    /\ checks.preflight = "failed"
    /\ exitCode = 1

C8_SummaryOnce ==
    /\ Len(summaries) <= 1
    /\ pc # "exited" => summaries = <<>>
    /\ (pc = "exited" /\ ended \in {"completed", "interrupt", "exception"})
         => summaries = <<stats>>
    /\ ended = "exception" => exitCode = 1
    /\ (pc = "exited" /\ checks.preflight = "passed" /\ checks.range # "failed")
         => ended \in {"completed", "interrupt", "exception"}
    /\ (pc = "exited" /\ checks.range = "failed")
         => (ended = "range" /\ exitCode = 1 /\ summaries = <<>>)

C8_Witness ==
    /\ pc = "exited"
    /\ ended = "interrupt"
    /\ checks.preflight = "passed"
    /\ stats.images_downloaded = 1
    /\ stats.pages_successful = 0
    /\ summaries = <<stats>>

\* C9: a failed preflight check, a failed folder creation or write probe,
\* or start_page > end_page: no page is attempted and no listing page is
\* requested.  The folder is prepared only after the preflight check has
\* passed, the range is validated only after the folder check has passed,
\* and the page loop runs only after the range check has passed.
C9_FatalBeforePages ==
    /\ (checks.preflight = "failed" \/ checks.folder = "failed"
            \/ start_page > end_page)
         => /\ stats.pages_attempted = 0
            /\ attempted = <<>>
            /\ ~listingGet
    /\ (checks.preflight = "failed" \/ checks.folder = "failed"
            \/ checks.range = "failed") => pc = "exited"
    /\ checks.folder # "pending" => checks.preflight = "passed"
    /\ checks.range # "pending" => checks.folder = "passed"
    /\ checks.range = "failed" <=> (checks.folder = "passed" /\ start_page > end_page
                                     /\ ended = "range")
    /\ (listingGet \/ stats.pages_attempted > 0
            \/ pc \notin {"test_connectivity", "create_download_folder",
                           "validate_range", "exited"})
         => checks.range = "passed"

C9_Witness ==
    /\ pc = "exited"
    /\ ended = "range"
    /\ checks = [preflight |-> "passed", folder |-> "passed", range |-> "failed"]
    /\ stats.pages_attempted = 0

\* C10: the fetch events of a page are GET attempts, each failed attempt
\* but the third followed by a sleep and a further attempt; at most 3 GETs;
\* nothing follows a success but the parse of the page; the third failure
\* is followed by no sleep: the page returns with errors[page_fetch_error]
\* one higher and nothing else in stats changed (no image found or
\* processed, pages_successful as before).
Exhausted == <<"fail", "sleep", "fail", "sleep", "fail">>
C10_Shape ==
    /\ Len(fetchLog) <= 5
    /\ \A i \in 1..Len(fetchLog) :
          IF i % 2 = 1
          THEN /\ fetchLog[i] \in {"ok", "fail"}
               /\ fetchLog[i] = "ok" => i = Len(fetchLog)
          ELSE fetchLog[i] = "sleep" /\ fetchLog[i - 1] = "fail"
    /\ pc = "parse" => (fetchLog # <<>> /\ fetchLog[Len(fetchLog)] = "ok")
    /\ pc = "fetch" => (fetchLog = <<>> \/ fetchLog[Len(fetchLog)] = "sleep")
    /\ (pc = "page_return" /\ fetchLog # <<>>) => fetchLog = Exhausted
C10_Step ==
    /\ (pc = "fetch" /\ fetchLog' = Exhausted)
         => /\ pc' = "page_return"
            /\ stats' = IncErr(stats, "page_fetch_error")
    /\ (pc = "fetch" /\ pc' = "page_return") => fetchLog' = Exhausted
    /\ (pc = "fetch" /\ pc' = "parse") => stats' = stats
C10_Retry == [](C10_Shape) /\ [][C10_Step]_vars

C10_Witness ==
    /\ pc = "page_return"
    /\ fetchLog = Exhausted
    /\ stats.errors["page_fetch_error"] = 1
    /\ stats.pages_attempted = 1
    /\ stats.pages_successful = 0
    /\ stats.images_found = 0

\* the selectors of lines 241-251 that match at least one node of d
Matching(d) == {k \in 1..5 : Select(d, k) # <<>>}
Least(S) == CHOOSE k \in S : \A j \in S : k <= j
UpTo(n) == [i \in 1..n |-> i]
SrcsOf(nodes) == [i \in 1..Len(nodes) |-> nodes[i].src]

\* C11: first match wins.  Once lines 241-273 ran on a document, the
\* selectors evaluated are 1..k in order, k being the first selector with a
\* match, none after k; the nodes handed to the image loop are exactly the
\* matches of selector k and images_found grew by their number.  When no
\* selector matches, all five were evaluated, errors[no_images_found] grew
\* by one, images_found is unchanged, no node is processed and the page is
\* not counted successful.
C11_FirstMatchWins ==
    pc # "parse" =>
        IF Matching(soup) = {}
        THEN /\ selectors_tried = UpTo(5)
             /\ pc = "page_return"
             /\ tags = <<>>
             /\ stats = IncErr(Inc(InitStats, "pages_attempted"), "no_images_found")
             /\ stats.images_found = 0
             /\ stats.pages_successful = 0
        ELSE LET k == Least(Matching(soup)) IN
             /\ selectors_tried = UpTo(k)
             /\ pc = "image"
             /\ tags = SrcsOf(Select(soup, k))
             /\ idx = 1
             /\ stats = [Inc(InitStats, "pages_attempted")
                            EXCEPT !.images_found = Len(Select(soup, k))]

\* selectors 1 and 2 match nothing, selector 3 does, and selector 4 would
\* have matched another node
C11_Witness ==
    /\ pc = "image"
    /\ Select(soup, 1) = <<>> /\ Select(soup, 2) = <<>>
    /\ Select(soup, 3) # <<>>
    /\ Select(soup, 4) # <<>> /\ Select(soup, 4) # Select(soup, 3)
    /\ selectors_tried = <<1, 2, 3>>
    /\ tags = SrcsOf(Select(soup, 3))

\* the per-image error categories: those of download_image and the
\* processing_error of line 309
ImageErrSum(s) ==
    s.errors["invalid_url"] + s.errors["timeout"] + s.errors["connection_error"]
    + s.errors["http_404"] + s.errors["invalid_content_type"]
    + s.errors["empty_file"] + s.errors["unexpected_download_error"]
    + s.errors["processing_error"]

\* a matched node was passed over without a call of download_image: it has
\* no src attribute (lines 283-286)
NoSrcStep == pc = "image" /\ pc' = "image" /\ idx' = idx + 1

\* one step of the image loop, as C12 has it
C12_Step ==
    /\ NoSrcStep
         => /\ stats'.images_failed = stats.images_failed + 1
            /\ ImageErrSum(stats') = ImageErrSum(stats) + 1
    /\ (pc = "dl_return" /\ pc' = "image" /\ ~ret)
         => /\ stats.images_failed = statsPre.images_failed + 1
            /\ ImageErrSum(stats) = ImageErrSum(statsPre) + 1

\* C12: every matched image that ends neither Downloaded nor Skipped, a
\* node with no src attribute included, adds exactly one to images_failed
\* and exactly one to one per-image error category, so images_failed is
\* always the sum of the per-image error categories.
C12_Stated == [](stats.images_failed = ImageErrSum(stats)) /\ [][C12_Step]_vars

\* what the code keeps of C12: a download_image call that returns False
\* added one to images_failed and one to one category, and the sum holds
C12_CallsCounted ==
    /\ stats.images_failed = ImageErrSum(stats)
    /\ (pc = "dl_return" /\ ~ret)
         => /\ stats.images_failed = statsPre.images_failed + 1
            /\ ImageErrSum(stats) = ImageErrSum(statsPre) + 1

\* the image loop of lines 279-309 and the call it makes
InImageLoop == pc \in {"image", "dl_request", "dl_open", "dl_stream", "dl_return"}

C13_Shape ==
    /\ InImageLoop => idx \in 1..(Len(tags) + 1)
    /\ InCall => (idx <= Len(tags) /\ url = Resolve(tags[idx]))
C13_Step ==
    \* a call ends only by returning (or the user's interrupt) ...
    /\ (InCall /\ ~Returned /\ pc' # "exited")
         => (pc' \in {"dl_open", "dl_stream", "dl_return"}
             /\ idx' = idx /\ tags' = tags)
    \* ... and whatever it returned, the loop moves to the next node
    /\ (Returned /\ pc' # "exited")
         => (pc' = "image" /\ idx' = idx + 1 /\ tags' = tags
             /\ stats' = stats)
    /\ (pc = "image" /\ pc' # "exited" /\ idx <= Len(tags))
         => /\ tags' = tags
            /\ \/ pc' = "image" /\ idx' = idx + 1 /\ tags[idx] = <<>>
               \/ pc' = "dl_request" /\ idx' = idx /\ url' = Resolve(tags[idx])
    \* the page ends only after the last node, and is counted successful
    /\ (InImageLoop /\ pc' = "page_return")
         => (pc = "image" /\ idx = Len(tags) + 1
             /\ stats' = Inc(stats, "pages_successful"))

\* C13: failures of download_image stay inside it.  On a page whose
\* selection succeeded the matched nodes are processed one by one in
\* document order; however a call ended (any failure category included) the
\* loop goes on with the next node; the page is left only after the last
\* node and is then counted in pages_successful, whatever its downloads did.
C13_Contained == [](C13_Shape) /\ [][C13_Step]_vars

\* a page of two images, both failed, counted successful
C13_Witness ==
    /\ pc = "page_return"
    /\ stats.pages_attempted = 1
    /\ stats.images_found = 2
    /\ stats.images_failed = 2
    /\ stats.errors["timeout"] = 1
    /\ stats.errors["invalid_content_type"] = 1
    /\ stats.pages_successful = 1

\* C14: a URL with no scheme or no host is rejected at once: the call
\* returns False with images_failed and errors[invalid_url] one higher and
\* nothing else in stats changed, no request was issued for it, and the
\* folder is as it was before the call.
C14_InvalidUrl ==
    (InCall /\ ~AbsoluteUrl(url))
        => /\ gets = 0
           /\ fs = fsPre
           /\ stream = "none"
           /\ pc \in {"dl_request", "dl_return"}
           /\ Returned
                => /\ ~ret
                   /\ stats = Failed(statsPre, "invalid_url")
                   /\ stats.images_failed = statsPre.images_failed + 1
                   /\ stats.errors["invalid_url"] = statsPre.errors["invalid_url"] + 1

\* a URL with a scheme and no host, rejected while a file is in the folder
C14_Witness ==
    /\ Returned
    /\ url.scheme # "" /\ url.netloc = ""
    /\ stats.errors["invalid_url"] = 1
    /\ gets = 0
    /\ \E p \in Paths : Exists(fs, p)

\* the string that follows the first marker of a src, up to its end, as the
\* pieces the marker separates; the src itself when it has no marker
AfterMarker(src) == IF Len(src) > 1 THEN Tail(src) ELSE src

\* C15: the URL handed to download_image is what follows the marker
\* "fit=cover/" in the thumbnail URL, up to the end of the thumbnail URL,
\* when the marker occurs (once or more), and the thumbnail URL itself when
\* it does not.
C15_Stated ==
    InCall => <<url>> = AfterMarker(tags[idx])

\* what the code keeps of C15: with no marker the URL is the src, with one
\* marker it is what follows the marker
C15_OneMarker ==
    (InCall /\ Len(tags[idx]) <= 2) => <<url>> = AfterMarker(tags[idx])

\* the user's interrupt arrives while the body is written to the file: the
\* end of the body was not reached
CancelledMidStream == pc = "dl_stream" /\ stream = "open" /\ pc' = "exited"

\* C16: a download cancelled mid-stream leaves at its target path no file
\* that a later download_image call for the same URL would take as present:
\* the partial file was deleted.
C16_Stated ==
    [][CancelledMidStream => ~SkipExisting(fs', filepath)]_vars

\* what the code does on the cancellation: the file stays as written so far
C16_PartialKept ==
    [][CancelledMidStream => fs' = fs]_vars

\* C17: when download_image returns a failure, no file of nonzero size
\* that the call created or wrote is left in the folder (so none at its
\* target path that a later call would skip).
C17_Stated ==
    (Returned /\ ~ret)
        => \A p \in Paths : (Exists(fs, p) /\ Size(fs, p) > 0) => fs[p] = fsPre[p]

\* what the code keeps of C17: every failure but the one raised while the
\* body is streamed leaves the folder without a file the call wrote
C17_NoFileUnlessStreamError ==
    (Returned /\ ~ret /\ stream # "error")
        => \A p \in Paths : Exists(fs, p) => fs[p] = fsPre[p]

\* no scrape_page call is in progress
NoPageCall == pc \notin {"fetch", "parse", "image", "dl_request", "dl_open",
                          "dl_stream", "dl_return"}
\* the run was ended by a KeyboardInterrupt raised inside scrape_page (or
\* inside the download_image call it made)
PageCutShort == interrupted_in \in {"scrape_page", "download_image"}
\* the pages counted successful or in a page-level error category
PageSum(s) ==
    s.pages_successful + s.errors["invalid_html"] + s.errors["no_images_found"]
    + s.errors["page_fetch_error"] + s.errors["unexpected_page_error"]

\* C18 (as stated): whenever no scrape_page call is in progress every
\* attempted page is counted as successful or in one page-level error
\* category: pages_attempted = pages_successful + errors[invalid_html] +
\* errors[no_images_found] + errors[page_fetch_error] +
\* errors[unexpected_page_error].
C18_Stated ==
    NoPageCall => stats.pages_attempted = PageSum(stats)

\* C18 (amended): the equality holds whenever no scrape_page call is in
\* progress and none was cut short by a KeyboardInterrupt; the page of a
\* call in progress or cut short is attempted and not yet counted, so
\* pages_attempted is then one more than the sum (a call is taken to end
\* with the line that counts its page); pages_successful never exceeds
\* pages_attempted.
C18_PageAccounting ==
    /\ stats.pages_successful <= stats.pages_attempted
    /\ (NoPageCall /\ ~PageCutShort) => stats.pages_attempted = PageSum(stats)
    /\ (~NoPageCall \/ PageCutShort) => stats.pages_attempted = PageSum(stats) + 1

\* three pages: one successful, one without images, one whose fetch failed
C18_Witness ==
    /\ pc = "exited" /\ ended = "completed"
    /\ stats.pages_attempted = 3
    /\ stats.pages_successful = 1
    /\ stats.errors["no_images_found"] = 1
    /\ stats.errors["page_fetch_error"] = 1

\* the images counted in one of the three outcome counters
OutcomeSum(s) == s.images_downloaded + s.images_skipped + s.images_failed
\* exactly one of the three outcome counters is one higher, the others equal
OneOutcome(s, t) ==
    \E k \in {"images_downloaded", "images_skipped", "images_failed"} :
        /\ t[k] = s[k] + 1
        /\ \A j \in {"images_downloaded", "images_skipped", "images_failed"} \ {k} :
              t[j] = s[j]

\* C19 (as stated): images_downloaded + images_skipped + images_failed never
\* exceeds images_found; whenever no scrape_page call is in progress and no
\* page ended with an unexpected page error, images_found minus that sum is
\* the number of matched nodes without src; each download_image call
\* changes exactly one of the three counters by one.
C19_Stated ==
    /\ OutcomeSum(stats) <= stats.images_found
    /\ (NoPageCall /\ stats.errors["unexpected_page_error"] = 0)
         => stats.images_found - OutcomeSum(stats) = nosrc
    /\ Returned => OneOutcome(statsPre, stats)

\* C19 (amended): as stated, for the states in which no scrape_page call is
\* in progress and none was cut short by a KeyboardInterrupt, and for the
\* download_image calls that return; in every state the difference is at
\* least the number of matched nodes without src.
C19_ImageAccounting ==
    /\ OutcomeSum(stats) <= stats.images_found
    /\ (NoPageCall /\ ~PageCutShort /\ stats.errors["unexpected_page_error"] = 0)
         => stats.images_found - OutcomeSum(stats) = nosrc
    /\ Returned => OneOutcome(statsPre, stats)
    /\ stats.images_found - OutcomeSum(stats) >= nosrc

\* a completed run: two nodes matched, one without src, one downloaded
C19_Witness ==
    /\ pc = "exited" /\ ended = "completed"
    /\ stats.images_found = 2
    /\ stats.images_downloaded = 1
    /\ OutcomeSum(stats) = 1
    /\ nosrc = 1

====
